---- MODULE Spec2Model ----
(***************************************************************************)
(* The tabbed interactive form (InteractiveForm, form-component.ts) and    *)
(* the interactive_form tool that opens it (rich-review/index.ts); the     *)
(* todo tracker extension (todo-tracker/index.ts).                         *)
(*                                                                         *)
(* Tab indices are 0-based as in the code; TLA+ sequences are 1-based, so  *)
(* tabs[i] of the code is tabs[i + 1] here.  A text is a sequence of       *)
(* one-character strings.  An optional field of a TypeScript object that   *)
(* is absent or undefined is a record field that is absent.                *)
(***************************************************************************)
EXTENDS Integers, Sequences, FiniteSets, TLC

VARIABLES
    tabs,              \* this.tabs: the TabConfig sequence (params.tabs)
    signal,            \* "none" (no signal passed), "idle" or "aborted"
    constructed,       \* a form instance exists (its abort listener is registered)
    currentTabIndex,   \* this.currentTabIndex
    responses,         \* this.responses: tab id -> TabResponse
    optionCursor,      \* this.optionCursor: tab id -> cursor
    customInputMode,   \* this.customInputMode: tab id -> boolean
    customInputs,      \* this.customInputs: tab id -> text of the Input
    doneCalls,         \* the arguments of the calls of this.done, in order
    keyTick,           \* flips with every call of handleInput
    scenarioPos,       \* how many keys of Scenario the input has matched, or -1
    hasUI,             \* ctx.hasUI
    toolPc,            \* position of execute: "none", "start", "awaiting", "returned"
    toolResult,        \* what execute returned
    cachedWidth,       \* this.cachedWidth
    cachedLines,       \* this.cachedLines
    renderRequested,   \* a render requested with tui.requestRender() is pending
    rendered,          \* the frame the last render returned, if no handleInput or
                       \* invalidate came after it
    todos,             \* state.todos
    nextId,            \* state.nextId
    visible,           \* state.visible
    sessionEntries,    \* the data of the "todos" entries of the session, oldest first
    widget,            \* the "todos" widget of the host: its lines, if it is set
    workingMessage,    \* the working message of the host
    todoReturn         \* what the last call of the todo tool returned

formVars == <<currentTabIndex, responses, optionCursor, customInputMode, customInputs,
              cachedWidth, cachedLines, renderRequested>>
toolVars == <<hasUI, toolPc, toolResult>>
todoVars == <<todos, nextId, visible, sessionEntries, widget, workingMessage, todoReturn>>
vars == <<tabs, signal, constructed, currentTabIndex, responses,
          optionCursor, customInputMode, customInputs, doneCalls, keyTick,
          scenarioPos, hasUI, toolPc, toolResult, cachedWidth, cachedLines,
          renderRequested, rendered,
          todos, nextId, visible, sessionEntries, widget, workingMessage, todoReturn>>

----
\* Bounds of the model.

\* The completion callback is recorded at most MaxDone times.
MaxDone == 2
\* An Input holds at most MaxText characters.
MaxText == 2

----
\* Forms.

Min(a, b) == IF a < b THEN a ELSE b
Max(a, b) == IF a > b THEN a ELSE b

Option(v, l) == [value |-> v, label |-> l]

ColorTab == [id |-> "Color", label |-> "Colour", question |-> "Which colour?",
             options |-> <<Option("red", "Red"), Option("blue", "Blue")>>,
             selectionType |-> "single", allowCustom |-> FALSE]

NotesTab == [id |-> "Notes", label |-> "Remarks", question |-> "Which remarks?",
             options |-> <<Option("a", "A"), Option("b", "B")>>,
             selectionType |-> "multiple", allowCustom |-> TRUE]

PlanTab == [id |-> "Plan", label |-> "Planning", question |-> "Which plan?",
            options |-> <<Option("x", "X")>>,
            selectionType |-> "single", allowCustom |-> TRUE]

EmptyTab == [id |-> "Empty", label |-> "Nothing", question |-> "Nothing to choose?",
             options |-> <<>>,
             selectionType |-> "multiple", allowCustom |-> FALSE]

\* A free-text question: no options, only the custom-entry slot.
FreeTab == [id |-> "Free", label |-> "Anything", question |-> "Anything else?",
            options |-> <<>>,
            selectionType |-> "single", allowCustom |-> TRUE]

ZeroTabForm == <<>>
FreeTextForm == <<FreeTab>>
ColorNotesForm == <<ColorTab, NotesTab>>
PlanEmptyForm == <<PlanTab, EmptyTab>>

Forms == {ZeroTabForm, ColorNotesForm, PlanEmptyForm, FreeTextForm}
ToolForms == {ZeroTabForm, <<ColorTab>>}

TabIds(t) == {t[i].id : i \in DOMAIN t}

----
\* Keys.  matchesKey(data, Key.x) is data = "x"; the space bar sends " ".

NavKeys == {"escape", "enter", "space", "tab", "right", "shift+tab", "left", "up", "down"}
DigitKeys == {"1", "2"}
TextKeys == {"h", "backspace"}
Keys == NavKeys \cup DigitKeys \cup TextKeys
ToolKeys == {"escape", "enter", "tab", "1"}

\* parseInt(data, 10): NaN (here 0, which fails numKey >= 1) unless a digit.
ParseInt(data) == IF data = "1" THEN 1 ELSE IF data = "2" THEN 2 ELSE 0

\* The character a key types into an Input, or <<>> when it types none.
KeyChars(data) ==
    IF data = "space" THEN <<" ">>
    ELSE IF data \in DigitKeys \cup {"h"} THEN <<data>>
    ELSE <<>>

----
\* Texts.

RECURSIVE TrimStart(_)
TrimStart(s) == IF s # <<>> /\ Head(s) = " " THEN TrimStart(Tail(s)) ELSE s

RECURSIVE TrimEnd(_)
TrimEnd(s) ==
    IF s # <<>> /\ s[Len(s)] = " " THEN TrimEnd(SubSeq(s, 1, Len(s) - 1)) ELSE s

\* Mutant: only leading whitespace is removed.
TrimStartOnly(s) == TrimStart(s)

Trim(s) == TrimEnd(TrimStart(s))

\* Input.handleInput of the text component: a printable character is
\* appended, backspace removes the last character, other keys leave the text.
InputHandleInput(text, data) ==
    IF KeyChars(data) # <<>> THEN text \o KeyChars(data)
    ELSE IF data = "backspace" /\ text # <<>> THEN SubSeq(text, 1, Len(text) - 1)
    ELSE text

----
\* Results of the form.

Null == [kind |-> "null"]
FormResult(r) == [kind |-> "result", responses |-> r]

\* TabResponse
EmptyResponse == [selected |-> <<>>]
CustomResponse(text) == [selected |-> <<>>, customText |-> text]
HasCustomText(r) == "customText" \in DOMAIN r

IndexOf(seq, v) ==
    IF \E i \in DOMAIN seq : seq[i] = v
    THEN (CHOOSE i \in DOMAIN seq : seq[i] = v /\ \A j \in 1..(i - 1) : seq[j] # v) - 1
    ELSE -1

\* Mutant: splice(idx) without a count removes everything from idx on.
SpliceToEnd(seq, idx) == SubSeq(seq, 1, idx)

\* selected.splice(idx, 1), idx 0-based
Splice(seq, idx) == SubSeq(seq, 1, idx) \o SubSeq(seq, idx + 2, Len(seq))

----
\* The constructor (field initialisers and the loop over the tabs).

NoEntries == [id \in {} |-> 0]
\* Mutant: only a tab with options gets a response entry.
InitResponsesWithOptions(t) ==
    [id \in {t[i].id : i \in {j \in DOMAIN t : t[j].options # <<>>}} |-> EmptyResponse]

InitResponses(t) == [id \in TabIds(t) |-> EmptyResponse]
InitOptionCursor(t) == [id \in TabIds(t) |-> 0]
InitCustomInputMode(t) == [id \in TabIds(t) |-> FALSE]
InitCustomInputs(t) == [id \in TabIds(t) |-> <<>>]

----
\* The pieces of handleInput.

OptionCount(tab) == Len(tab.options) + (IF tab.allowCustom THEN 1 ELSE 0)

\* Mutant: Tab stops at the last question and never opens the Summary view.
NextTabIndexStopsAtLast(i, n) == Min(i + 1, Max(n - 1, 0))

NextTabIndex(i, n) == Min(i + 1, n)

\* Mutant: the clamp at the first tab is missing.
PrevTabIndexUnclamped(i) == i - 1

PrevTabIndex(i) == Max(i - 1, 0)

CursorUp(cursor) == Max(0, cursor - 1)

\* Mutant: Down is not clamped at the last slot.
CursorDownUnclamped(cursor, optionCount) == cursor + 1

CursorDown(cursor, optionCount) == Min(optionCount - 1, cursor + 1)

\* Mutant: a single-selection tab toggles like a multiple-selection tab.
SelectOptionAlwaysToggle(tab, response, value) ==
    LET idx == IndexOf(response.selected, value)
    IN  [selected |-> IF idx >= 0 THEN Splice(response.selected, idx)
                      ELSE Append(response.selected, value)]

\* Mutant: choosing an option does not clear customText.
SelectOptionKeepsCustom(tab, response, value) ==
    LET selected == IF tab.selectionType = "single" THEN <<value>>
                    ELSE IF IndexOf(response.selected, value) >= 0
                    THEN Splice(response.selected, IndexOf(response.selected, value))
                    ELSE Append(response.selected, value)
    IN  IF HasCustomText(response)
        THEN [selected |-> selected, customText |-> response.customText]
        ELSE [selected |-> selected]

\* Mutant: a multiple-selection tab appends the value without looking for it.
SelectOptionAlwaysAppend(tab, response, value) ==
    IF tab.selectionType = "single"
    THEN [selected |-> <<value>>]
    ELSE [selected |-> Append(response.selected, value)]

\* Toggle option selection: the response after the option's value is chosen.
SelectOption(tab, response, value) ==
    IF tab.selectionType = "single"
    THEN [selected |-> <<value>>]
    ELSE LET idx == IndexOf(response.selected, value)
         IN  [selected |-> IF idx >= 0 THEN Splice(response.selected, idx)
                           ELSE Append(response.selected, value)]

\* An optional field that is undefined.
Undefined == [kind |-> "undefined"]

\* this.invalidate()
Invalidate ==
    /\ cachedWidth' = Undefined
    /\ cachedLines' = Undefined

\* this.tui.requestRender()
RequestRender == renderRequested' = TRUE

\* this.done(result)
CallDone(result) ==
    /\ Len(doneCalls) < MaxDone
    /\ doneCalls' = Append(doneCalls, result)

\* Mutant: Tab is not handed to the text input, it leaves the custom input mode.
CustomModeInputTabLeaves(tabId, data) ==
    IF data \in {"escape", "tab"}
    THEN /\ customInputMode' = [customInputMode EXCEPT ![tabId] = FALSE]
         /\ Invalidate
         /\ RequestRender
         /\ UNCHANGED <<currentTabIndex, responses, optionCursor, customInputs, doneCalls>>
    ELSE IF data = "enter"
    THEN LET inputText == Trim(customInputs[tabId])
         IN  /\ responses' = IF inputText # <<>>
                             THEN [responses EXCEPT ![tabId] = CustomResponse(inputText)]
                             ELSE responses
             /\ customInputMode' = [customInputMode EXCEPT ![tabId] = FALSE]
             /\ Invalidate
             /\ RequestRender
             /\ UNCHANGED <<currentTabIndex, optionCursor, customInputs, doneCalls>>
    ELSE /\ Len(InputHandleInput(customInputs[tabId], data)) <= MaxText
         /\ customInputs' = [customInputs EXCEPT
                                ![tabId] = InputHandleInput(customInputs[tabId], data)]
         /\ Invalidate
         /\ RequestRender
         /\ UNCHANGED <<currentTabIndex, responses, optionCursor, customInputMode, doneCalls>>

\* The custom input mode of the current tab.
CustomModeInput(tabId, data) ==
    IF data = "escape"
    THEN /\ customInputMode' = [customInputMode EXCEPT ![tabId] = FALSE]
         /\ UNCHANGED <<currentTabIndex, responses, optionCursor, customInputs, doneCalls>>
         /\ Invalidate
         /\ RequestRender
    ELSE IF data = "enter"
    THEN LET inputText == Trim(customInputs[tabId])
         IN  /\ responses' = IF inputText # <<>>
                             THEN [responses EXCEPT ![tabId] = CustomResponse(inputText)]
                             ELSE responses
             /\ customInputMode' = [customInputMode EXCEPT ![tabId] = FALSE]
             /\ UNCHANGED <<currentTabIndex, optionCursor, customInputs, doneCalls>>
             /\ Invalidate
             /\ RequestRender
    ELSE /\ Len(InputHandleInput(customInputs[tabId], data)) <= MaxText
         /\ customInputs' = [customInputs EXCEPT
                                ![tabId] = InputHandleInput(customInputs[tabId], data)]
         /\ UNCHANGED <<currentTabIndex, responses, optionCursor, customInputMode, doneCalls>>
         /\ Invalidate
         /\ RequestRender

\* Mutant: Escape hands the responses to the callback instead of null.
GlobalEscapeSubmits ==
    /\ CallDone(FormResult(responses))
    /\ UNCHANGED formVars

\* Global navigation: Escape outside the custom input mode.
GlobalEscape ==
    /\ CallDone(Null)
    /\ UNCHANGED formVars

\* Submit tab handling: Enter on the virtual submit tab.
SubmitForm ==
    /\ CallDone(FormResult(responses))
    /\ UNCHANGED formVars

\* Mutant: the tabs share one response object, so a selection made in place
\* shows in the response of every tab.
SelectAtCursorShared(currentTab, cursor) ==
    LET tabId == currentTab.id
        isCustomOption == currentTab.allowCustom /\ cursor = Len(currentTab.options)
    IN  IF isCustomOption
        THEN /\ customInputMode' = [customInputMode EXCEPT ![tabId] = TRUE]
             /\ Invalidate
             /\ RequestRender
             /\ UNCHANGED <<currentTabIndex, responses, optionCursor, customInputs, doneCalls>>
        ELSE IF (cursor + 1) \notin DOMAIN currentTab.options
        THEN UNCHANGED <<formVars, doneCalls>>
        ELSE /\ responses' = [id \in DOMAIN responses |->
                    SelectOption(currentTab, responses[tabId],
                                 currentTab.options[cursor + 1].value)]
             /\ Invalidate
             /\ RequestRender
             /\ UNCHANGED <<currentTabIndex, optionCursor, customInputMode, customInputs,
                            doneCalls>>

\* Mutant: Enter opens the custom input on every slot of a tab that allows it.
SelectAtCursorCustomAnywhere(currentTab, cursor) ==
    LET tabId == currentTab.id
        isCustomOption == currentTab.allowCustom
    IN  IF isCustomOption
        THEN /\ customInputMode' = [customInputMode EXCEPT ![tabId] = TRUE]
             /\ Invalidate
             /\ RequestRender
             /\ UNCHANGED <<currentTabIndex, responses, optionCursor, customInputs, doneCalls>>
        ELSE IF (cursor + 1) \notin DOMAIN currentTab.options
        THEN UNCHANGED <<formVars, doneCalls>>
        ELSE /\ responses' = [responses EXCEPT ![tabId] =
                    SelectOption(currentTab, responses[tabId],
                                 currentTab.options[cursor + 1].value)]
             /\ Invalidate
             /\ RequestRender
             /\ UNCHANGED <<currentTabIndex, optionCursor, customInputMode, customInputs,
                            doneCalls>>

\* Selection: Enter or Space on the slot under the cursor.
SelectAtCursor(currentTab, cursor) ==
    LET tabId == currentTab.id
        isCustomOption == currentTab.allowCustom /\ cursor = Len(currentTab.options)
    IN  IF isCustomOption
        THEN /\ customInputMode' = [customInputMode EXCEPT ![tabId] = TRUE]
             /\ Invalidate
             /\ RequestRender
             /\ UNCHANGED <<currentTabIndex, responses, optionCursor, customInputs, doneCalls>>
        ELSE IF (cursor + 1) \notin DOMAIN currentTab.options
        THEN UNCHANGED <<formVars, doneCalls>>
        ELSE /\ responses' = [responses EXCEPT ![tabId] =
                    SelectOption(currentTab, responses[tabId],
                                 currentTab.options[cursor + 1].value)]
             /\ Invalidate
             /\ RequestRender
             /\ UNCHANGED <<currentTabIndex, optionCursor, customInputMode, customInputs,
                            doneCalls>>

\* Mutant: a digit above the option count is accepted.
IsQuickSelectKeyNoUpperBound(numKey, optionCount) == numKey >= 1

\* !isNaN(numKey) && numKey >= 1 && numKey <= optionCount
IsQuickSelectKey(numKey, optionCount) == numKey >= 1 /\ numKey <= optionCount

\* Mutant: the quick selection leaves the cursor where it is.
QuickSelectKeepsCursor(currentTab, numKey) ==
    LET tabId == currentTab.id
        optionIndex == numKey - 1
        isCustomOption == currentTab.allowCustom /\ optionIndex = Len(currentTab.options)
    IN  /\ customInputMode' = IF isCustomOption
                              THEN [customInputMode EXCEPT ![tabId] = TRUE]
                              ELSE customInputMode
        /\ responses' = IF ~isCustomOption /\ (optionIndex + 1) \in DOMAIN currentTab.options
                        THEN [responses EXCEPT ![tabId] =
                                 SelectOption(currentTab, responses[tabId],
                                              currentTab.options[optionIndex + 1].value)]
                        ELSE responses
        /\ Invalidate
        /\ RequestRender
        /\ UNCHANGED <<currentTabIndex, optionCursor, customInputs, doneCalls>>

\* Mutant: the quick selection keeps the render cache.
QuickSelectKeepsCache(currentTab, numKey) ==
    LET tabId == currentTab.id
        optionIndex == numKey - 1
        isCustomOption == currentTab.allowCustom /\ optionIndex = Len(currentTab.options)
    IN  /\ customInputMode' = IF isCustomOption
                              THEN [customInputMode EXCEPT ![tabId] = TRUE]
                              ELSE customInputMode
        /\ responses' = IF ~isCustomOption /\ (optionIndex + 1) \in DOMAIN currentTab.options
                        THEN [responses EXCEPT ![tabId] =
                                 SelectOption(currentTab, responses[tabId],
                                              currentTab.options[optionIndex + 1].value)]
                        ELSE responses
        /\ optionCursor' = [optionCursor EXCEPT ![tabId] = optionIndex]
        /\ RequestRender
        /\ UNCHANGED <<currentTabIndex, customInputs, doneCalls, cachedWidth, cachedLines>>

\* Number keys for quick selection.
QuickSelect(currentTab, numKey) ==
    LET tabId == currentTab.id
        optionIndex == numKey - 1
        isCustomOption == currentTab.allowCustom /\ optionIndex = Len(currentTab.options)
    IN  /\ customInputMode' = IF isCustomOption
                              THEN [customInputMode EXCEPT ![tabId] = TRUE]
                              ELSE customInputMode
        /\ responses' = IF ~isCustomOption /\ (optionIndex + 1) \in DOMAIN currentTab.options
                        THEN [responses EXCEPT ![tabId] =
                                 SelectOption(currentTab, responses[tabId],
                                              currentTab.options[optionIndex + 1].value)]
                        ELSE responses
        /\ optionCursor' = [optionCursor EXCEPT ![tabId] = optionIndex]
        /\ Invalidate
        /\ RequestRender
        /\ UNCHANGED <<currentTabIndex, customInputs, doneCalls>>

\* The current-tab guard: this.tabs[this.currentTabIndex] is defined.
HasCurrentTab == (currentTabIndex + 1) \in DOMAIN tabs

\* handleInput from the custom-mode test on, given the current tab.
HandleKey(currentTab, data) ==
    LET tabId == currentTab.id
        isCustomMode == customInputMode[tabId]
        isSubmitTab == currentTabIndex = Len(tabs)
        optionCount == OptionCount(currentTab)
        cursor == optionCursor[tabId]
        numKey == ParseInt(data)
    IN  IF isCustomMode /\ ~isSubmitTab THEN CustomModeInput(tabId, data)
        ELSE IF data = "escape" THEN GlobalEscape
        ELSE IF data \in {"tab", "right"}
        THEN /\ currentTabIndex' = NextTabIndex(currentTabIndex, Len(tabs))
             /\ Invalidate
             /\ RequestRender
             /\ UNCHANGED <<responses, optionCursor, customInputMode, customInputs, doneCalls>>
        ELSE IF data \in {"shift+tab", "left"}
        THEN /\ currentTabIndex' = PrevTabIndex(currentTabIndex)
             /\ Invalidate
             /\ RequestRender
             /\ UNCHANGED <<responses, optionCursor, customInputMode, customInputs, doneCalls>>
        ELSE IF isSubmitTab
        THEN IF data = "enter" THEN SubmitForm ELSE UNCHANGED <<formVars, doneCalls>>
        ELSE IF data = "up"
        THEN /\ optionCursor' = [optionCursor EXCEPT ![tabId] = CursorUp(cursor)]
             /\ Invalidate
             /\ RequestRender
             /\ UNCHANGED <<currentTabIndex, responses, customInputMode, customInputs, doneCalls>>
        ELSE IF data = "down"
        THEN /\ optionCursor' = [optionCursor EXCEPT ![tabId] = CursorDown(cursor, optionCount)]
             /\ Invalidate
             /\ RequestRender
             /\ UNCHANGED <<currentTabIndex, responses, customInputMode, customInputs, doneCalls>>
        ELSE IF data \in {"enter", "space"} THEN SelectAtCursor(currentTab, cursor)
        ELSE IF IsQuickSelectKey(numKey, optionCount) THEN QuickSelect(currentTab, numKey)
        ELSE UNCHANGED <<formVars, doneCalls>>

----
\* render: texts are sequences of pieces (strings and the characters the
\* user typed); theme colours are left out.

\* const opt = tab.options.find((o) => o.value === val); return opt ? opt.label : val
LabelOf(tab, val) ==
    IF \E i \in DOMAIN tab.options : tab.options[i].value = val
    THEN tab.options[CHOOSE i \in DOMAIN tab.options :
                        /\ tab.options[i].value = val
                        /\ \A j \in 1..(i - 1) : tab.options[j].value # val].label
    ELSE val

\* parts.join(sep): the parts with the separator between them
RECURSIVE Join(_, _)
Join(parts, sep) ==
    IF parts = <<>> THEN <<>>
    ELSE IF Len(parts) = 1 THEN <<parts[1]>>
    ELSE <<parts[1], sep>> \o Join(Tail(parts), sep)

\* The selected values as their labels, joined by ", ".
SelectedLabels(tab, selected) ==
    Join([i \in DOMAIN selected |-> LabelOf(tab, selected[i])], ", ")

NoSelection == <<"(no selection)">>

\* Mutant: the Summary view shows the raw values of the selected options.
SummaryAnswerRawValues(tab) ==
    LET response == responses[tab.id]
    IN  IF HasCustomText(response) /\ response.customText # <<>> THEN response.customText
        ELSE IF Len(response.selected) > 0 THEN Join(response.selected, ", ")
        ELSE NoSelection

\* Summary view: the answer shown for a tab.
SummaryAnswer(tab) ==
    LET response == responses[tab.id]
    IN  IF HasCustomText(response) /\ response.customText # <<>> THEN response.customText
        ELSE IF Len(response.selected) > 0 THEN SelectedLabels(tab, response.selected)
        ELSE NoSelection

\* Mutant: a custom text does not count as a response.
hasResponseSelectedOnly(tabId) == Len(responses[tabId].selected) > 0

hasResponse(tabId) ==
    LET response == responses[tabId]
    IN  Len(response.selected) > 0
        \/ (HasCustomText(response) /\ response.customText # <<>>)

\* A line of a frame is its text and, for a line cut by truncateToWidth, the
\* width it was cut to.  The box-drawing and check-mark characters of the
\* source are written with ASCII stand-ins.
Line(text) == [text |-> text, truncated |-> FALSE, width |-> 0]
truncateToWidth(text, width) == [text |-> text, truncated |-> TRUE, width |-> width]

\* "x".repeat(n)
Repeat(piece, n) == [i \in 1..n |-> piece]

Border(width) == Line(Repeat("-", width))

\* Input.render(width) of the text component: the text, or the placeholder
\* the Input was constructed with.
InputRender(text, width) ==
    <<truncateToWidth(IF text = <<>> THEN <<"Type your answer...">> ELSE text, width)>>

renderTabHeader(width) ==
    LET allTabs == [i \in DOMAIN tabs |-> tabs[i].label] \o <<"Submit">>
        tabStr(i) ==
            IF i = currentTabIndex THEN <<" ", allTabs[i + 1], " ">>
            ELSE IF i = Len(tabs) THEN <<" ", "v", " ", allTabs[i + 1], " ">>
            ELSE IF hasResponse(tabs[i + 1].id) THEN <<" ", "v", " ", allTabs[i + 1], " ">>
            ELSE <<" ", "o", " ", allTabs[i + 1], " ">>
        part(i) == tabStr(i) \o (IF i < Len(allTabs) - 1 THEN <<"|">> ELSE <<>>)
        RECURSIVE partsFrom(_)
        partsFrom(i) == IF i >= Len(allTabs) THEN <<>> ELSE part(i) \o partsFrom(i + 1)
    IN  Line((IF currentTabIndex > 0 THEN <<"<- ">> ELSE <<"  ">>)
             \o partsFrom(0)
             \o (IF currentTabIndex < Len(tabs) THEN <<" ->">> ELSE <<"  ">>))

\* Summary view
SummaryLines(width) ==
    <<Line(<<>>), Line(<<"  Summary - Review your responses:">>), Line(<<>>)>>
    \o [i \in DOMAIN tabs |->
          truncateToWidth(<<"  ", tabs[i].label, ":", " ">> \o SummaryAnswer(tabs[i]), width)]
    \o <<Line(<<>>), Line(<<"  Press Enter to submit">>)>>

Checkbox(tab, marked) ==
    IF tab.selectionType = "single"
    THEN (IF marked THEN "(*)" ELSE "( )")
    ELSE (IF marked THEN "[v]" ELSE "[ ]")

\* Render options: the line of option idx (0-based) and of its description.
OptionLines(tab, idx, width) ==
    LET opt == tab.options[idx + 1]
        response == responses[tab.id]
        isSelected == \E k \in DOMAIN response.selected : response.selected[k] = opt.value
        isCursor == idx = optionCursor[tab.id] /\ ~customInputMode[tab.id]
        prefix == IF isCursor THEN "> " ELSE "  "
    IN  <<truncateToWidth(<<prefix, ToString(idx + 1), ".", " ",
                            Checkbox(tab, isSelected), " ", opt.label>>, width)>>
        \o (IF "description" \in DOMAIN opt
            THEN <<truncateToWidth(<<"       ", opt.description>>, width)>>
            ELSE <<>>)

\* Custom input option
CustomOptionLines(tab, width) ==
    LET response == responses[tab.id]
        customIdx == Len(tab.options)
        isCustomMode == customInputMode[tab.id]
        isCursor == customIdx = optionCursor[tab.id] /\ ~isCustomMode
        hasCustom == HasCustomText(response) /\ response.customText # <<>>
        prefix == IF isCursor THEN "> " ELSE "  "
        inputLines == InputRender(customInputs[tab.id], width - 4)
    IN  <<truncateToWidth(<<prefix, ToString(customIdx + 1), ".", " ",
                            Checkbox(tab, hasCustom), " ", "Type something">>, width)>>
        \o (IF isCustomMode
            THEN <<Line(<<>>)>>
                 \o [k \in DOMAIN inputLines |->
                       [inputLines[k] EXCEPT !.text = <<"    ">> \o @]]
                 \o <<truncateToWidth(<<"    ", "Enter to confirm - Esc to cancel">>, width)>>
            ELSE IF hasCustom
            THEN <<truncateToWidth(<<"       ", "\"">> \o response.customText \o <<"\"">>,
                                   width)>>
            ELSE <<>>)

\* Question view
QuestionLines(width) ==
    IF ~HasCurrentTab THEN <<>>
    ELSE LET currentTab == tabs[currentTabIndex + 1]
             RECURSIVE optionsFrom(_)
             optionsFrom(idx) ==
                 IF idx >= Len(currentTab.options) THEN <<>>
                 ELSE OptionLines(currentTab, idx, width) \o optionsFrom(idx + 1)
         IN  <<Line(<<>>), truncateToWidth(<<"  ", currentTab.question>>, width), Line(<<>>)>>
             \o optionsFrom(0)
             \o (IF currentTab.allowCustom THEN CustomOptionLines(currentTab, width) ELSE <<>>)

HelpLine ==
    Line(<<"  <-->/Tab: navigate tabs - Up/Down: select option - Enter/Space: toggle - Esc: cancel">>)

\* render(width) past the cache test: the frame computed from the state.
RenderLines(width) ==
    <<Border(width), renderTabHeader(width), Border(width)>>
    \o (IF currentTabIndex = Len(tabs) THEN SummaryLines(width) ELSE QuestionLines(width))
    \o <<Line(<<>>), HelpLine, Border(width)>>

----
\* The key sequence of the two-tab scenario (select red, Tab, select a and
\* b, Tab, Enter) and how far the keys pressed so far follow it; keyTick and
\* scenarioPos record the input, the form does not read them.
Scenario == <<"enter", "tab", "enter", "down", "enter", "tab", "enter">>

ScenarioStep(data) ==
    IF scenarioPos >= 0 /\ scenarioPos < Len(Scenario) /\ Scenario[scenarioPos + 1] = data
    THEN scenarioPos + 1
    ELSE -1

----
\* Actions.

\* The host delivers a key to a form that is shown.
FormShown == constructed /\ toolPc \in {"none", "awaiting"}

\* The current tab is capturing free text.
InCustomMode ==
    constructed /\ HasCurrentTab /\ customInputMode[tabs[currentTabIndex + 1].id]

\* The keys the user presses: text is typed with the text keys and the space
\* bar, the digit keys are pressed outside the custom input mode.
UserKeys == IF InCustomMode THEN Keys \ DigitKeys ELSE Keys

HandleInput(data) ==
    /\ FormShown
    /\ keyTick' = 1 - keyTick
    /\ scenarioPos' = ScenarioStep(data)
    /\ rendered' = Undefined
    /\ IF ~HasCurrentTab
       THEN UNCHANGED <<formVars, doneCalls>>
       ELSE HandleKey(tabs[currentTabIndex + 1], data)
    /\ UNCHANGED <<tabs, signal, constructed, toolVars, todoVars>>

\* A value of an optional field that is set.
Defined(v) == [kind |-> "defined", value |-> v]

\* this.cachedLines && this.cachedWidth === width
CacheHit(width) == cachedLines # Undefined /\ cachedWidth = Defined(width)

\* Mutant: the fill keeps lines that are already cached.
CacheFillKeepsLines(width, lines) ==
    /\ cachedWidth' = Defined(width)
    /\ cachedLines' = IF cachedLines = Undefined THEN Defined(lines) ELSE cachedLines

\* this.cachedWidth = width; this.cachedLines = lines
CacheFill(width, lines) ==
    /\ cachedWidth' = Defined(width)
    /\ cachedLines' = Defined(lines)

\* The frame render hands back, with whether it came from the cache.
Frame(width, lines, fromCache) == [width |-> width, lines |-> lines, fromCache |-> fromCache]

\* The host calls render(width) of the form it shows.
Render(width) ==
    /\ FormShown
    /\ IF CacheHit(width)
       THEN /\ rendered' = Frame(width, cachedLines.value, TRUE)
            /\ UNCHANGED <<cachedWidth, cachedLines>>
       ELSE /\ rendered' = Frame(width, RenderLines(width), FALSE)
            /\ CacheFill(width, RenderLines(width))
    /\ renderRequested' = FALSE
    /\ UNCHANGED <<tabs, signal, constructed, currentTabIndex, responses, optionCursor,
                   customInputMode, customInputs, doneCalls, keyTick, scenarioPos,
                   toolVars, todoVars>>

\* The host calls invalidate() of the form it shows.
InvalidateCall ==
    /\ FormShown
    /\ Invalidate
    /\ UNCHANGED renderRequested
    /\ rendered' = Undefined
    /\ UNCHANGED <<tabs, signal, constructed, currentTabIndex, responses, optionCursor,
                   customInputMode, customInputs, doneCalls, keyTick, scenarioPos,
                   toolVars, todoVars>>

\* The abort signal fires; the constructor's listener, if there is a form,
\* calls done(null).
Abort ==
    /\ signal = "idle"
    /\ signal' = "aborted"
    /\ scenarioPos' = -1
    /\ IF constructed THEN CallDone(Null) ELSE UNCHANGED doneCalls
    /\ UNCHANGED <<tabs, constructed, formVars, keyTick, toolVars, rendered, todoVars>>

----
\* The interactive_form tool.

\* params.title
FormTitle == "Preferences"

\* lines.join("\n") of lines that are texts: one text, "\n" between the lines
RECURSIVE JoinText(_, _)
JoinText(lines, sep) ==
    IF lines = <<>> THEN <<>>
    ELSE IF Len(lines) = 1 THEN lines[1]
    ELSE lines[1] \o <<sep>> \o JoinText(Tail(lines), sep)

\* Mutant: the raw values of the selected options are printed, not the labels.
TranscriptAnswerRawValues(tab, r) ==
    IF tab.id \in DOMAIN r
    THEN LET response == r[tab.id]
         IN  IF HasCustomText(response) /\ response.customText # <<>>
             THEN response.customText
             ELSE IF Len(response.selected) > 0
             THEN Join(response.selected, ", ")
             ELSE <<"(no selection)">>
    ELSE <<"(skipped)">>

\* The answer of a tab in the transcript, r being result.responses.
TranscriptAnswer(tab, r) ==
    IF tab.id \in DOMAIN r
    THEN LET response == r[tab.id]
         IN  IF HasCustomText(response) /\ response.customText # <<>>
             THEN response.customText
             ELSE IF Len(response.selected) > 0
             THEN SelectedLabels(tab, response.selected)
             ELSE <<"(no selection)">>
    ELSE <<"(skipped)">>

\* Format responses as plain text: the lines of the transcript.
RECURSIVE TabLines(_, _)
TabLines(t, r) ==
    IF t = <<>> THEN <<>>
    ELSE << <<"### ", t[1].label>>,
            <<"**Question:** ", t[1].question>>,
            <<"**Answer:** ">> \o TranscriptAnswer(t[1], r),
            <<>> >> \o TabLines(Tail(t), r)

Transcript(t, r) ==
    JoinText(<< <<"## Form Responses: ", FormTitle>>, <<>> >> \o TabLines(t, r), "\n")

NoUiResult == [kind |-> "error", error |-> "no_ui"]
CancelledResult == [kind |-> "cancelled", text |-> "Form cancelled by user"]
ThrownResult == [kind |-> "thrown"]
ResponsesResult(r) ==
    [kind |-> "responses", text |-> Transcript(tabs, r), responses |-> r]

\* Mutant: only the abort signal is tested, a null result is not.
IsCancelledAbortOnly(result, aborted) == aborted

\* !result || signal?.aborted
IsCancelled(result, aborted) == result = Null \/ aborted

\* execute after the await; reading result.responses of null throws.
ExecuteReturn(result, aborted) ==
    IF IsCancelled(result, aborted) THEN CancelledResult
    ELSE IF result = Null THEN ThrownResult
    ELSE ResponsesResult(result.responses)

\* Mutant: the check for an interactive UI is missing.
NoUINever == FALSE

\* !ctx.hasUI
NoUI == ~hasUI

\* execute up to the await: the hasUI check and the construction of the form.
Execute ==
    /\ toolPc = "start"
    /\ IF NoUI
       THEN /\ toolPc' = "returned"
            /\ toolResult' = NoUiResult
            /\ UNCHANGED <<constructed, formVars>>
       ELSE /\ toolPc' = "awaiting"
            /\ constructed' = TRUE
            /\ currentTabIndex' = 0
            /\ responses' = InitResponses(tabs)
            /\ optionCursor' = InitOptionCursor(tabs)
            /\ customInputMode' = InitCustomInputMode(tabs)
            /\ customInputs' = InitCustomInputs(tabs)
            /\ cachedWidth' = Undefined
            /\ cachedLines' = Undefined
            /\ renderRequested' = FALSE
            /\ UNCHANGED toolResult
    /\ UNCHANGED <<tabs, signal, doneCalls, keyTick, scenarioPos, hasUI, rendered, todoVars>>

\* The promise of ctx.ui.custom is resolved by the first call of done;
\* execute continues with that result.
Resume ==
    /\ toolPc = "awaiting"
    /\ Len(doneCalls) >= 1
    /\ toolPc' = "returned"
    /\ toolResult' = ExecuteReturn(doneCalls[1], signal = "aborted")
    /\ UNCHANGED <<tabs, signal, constructed, formVars, doneCalls, keyTick, scenarioPos, hasUI,
                   rendered, todoVars>>

----
\* The todo tracker: the module-level state when the extension is loaded.
TodoInit ==
    /\ todos = <<>>
    /\ nextId = 1
    /\ visible = TRUE
    /\ sessionEntries = <<>>
    /\ widget = Undefined
    /\ workingMessage = Undefined
    /\ todoReturn = Undefined

----
\* The todo tracker (todo-tracker/index.ts).  The handlers that only store
\* the context (before_agent_start, agent_start) change nothing modelled here.

\* The todo list holds at most MaxTodos todos.
MaxTodos == 2
\* The model keeps the MaxEntries most recent "todos" entries of the session.
MaxEntries == 2

\* params.text and params.id of a call of the todo tool
TodoTexts == {Undefined, Defined(""), Defined("a")}
TodoIds == {Undefined, Defined(1), Defined(2), Defined(3)}
TodoActions == {"add", "start", "complete", "list", "clear"}
\* execute reads params.text in the add case only and params.id in the start
\* and complete cases only; a call leaves out the parameter its action does
\* not read.
TextsOf(action) == IF action = "add" THEN TodoTexts ELSE {Undefined}
IdsOf(action) == IF action \in {"start", "complete"} THEN TodoIds ELSE {Undefined}

formAllVars == <<tabs, signal, constructed, formVars, doneCalls, keyTick, scenarioPos,
                 toolVars, rendered>>

\* state.todos.find((t) => t.id === id): its index (1-based), 0 if there is none
FindTodo(list, id) ==
    IF \E i \in DOMAIN list : list[i].id = id
    THEN CHOOSE i \in DOMAIN list : list[i].id = id /\ \A j \in 1..(i - 1) : list[j].id # id
    ELSE 0

\* state.todos.filter(keep)
RECURSIVE FilterTodos(_, _)
FilterTodos(list, statuses) ==
    IF list = <<>> THEN <<>>
    ELSE (IF Head(list).status \in statuses THEN <<Head(list)>> ELSE <<>>)
         \o FilterTodos(Tail(list), statuses)

renderTodo(todo) ==
    IF todo.status = "pending" THEN <<"  [ ] ", todo.text>>
    ELSE IF todo.status = "in-progress" THEN <<"  (o) ", todo.text>>
    ELSE <<"  [x] ", todo.text>>

renderWidget(list) ==
    IF Len(list) = 0 THEN <<>>
    ELSE LET completed == Len(FilterTodos(list, {"completed"}))
             pending == FilterTodos(list, {"pending", "in-progress"})
             done == FilterTodos(list, {"completed"})
         IN  << <<"  Tasks ", "(", ToString(completed), "/", ToString(Len(list)), ")",
                  " - /todos to hide">> >>
             \o [i \in DOMAIN pending |-> renderTodo(pending[i])]
             \o [i \in DOMAIN done |-> renderTodo(done[i])]
             \o << <<>> >>

\* Mutant: the widget is shown whether or not the list is visible.
updateWidgetIgnoresVisible(list, shown) ==
    widget' = IF Len(list) = 0 THEN Undefined ELSE Defined(renderWidget(list))

\* updateWidget(ctx), called when the list is `list` and state.visible is `shown`
updateWidget(list, shown) ==
    widget' = IF ~shown \/ Len(list) = 0 THEN Undefined ELSE Defined(renderWidget(list))

\* listTodos()
listTodos(list) ==
    IF Len(list) = 0 THEN <<"No todos.">>
    ELSE Join([i \in DOMAIN list |->
                 <<ToString(list[i].id), ". [",
                   IF list[i].status = "completed" THEN "x"
                   ELSE IF list[i].status = "in-progress" THEN "o" ELSE " ",
                   "] ", list[i].text>>], "\n")

\* pi.appendEntry("todos", data): the entry holds the data as they are when it
\* is appended.
AppendEntry(entries, data) ==
    IF Len(entries) < MaxEntries THEN Append(entries, data)
    ELSE Append(Tail(entries), data)

TodoData(list, id) == [todos |-> list, nextId |-> id]

\* session_start: the loop over the entries of the branch, the last one wins.
RECURSIVE Restore(_, _)
Restore(entries, data) ==
    IF entries = <<>> THEN data
    ELSE Restore(Tail(entries), TodoData(Head(entries).todos, Head(entries).nextId))

SessionStart ==
    LET data == Restore(sessionEntries, TodoData(<<>>, 1))
    IN  /\ todos' = data.todos
        /\ nextId' = data.nextId
        /\ updateWidget(data.todos, visible)
        /\ UNCHANGED <<visible, sessionEntries, workingMessage, todoReturn, formAllVars>>

\* turn_start: clearTodos(), setWorkingMessage(), updateWidget(ctx)
TurnStart ==
    /\ todos' = <<>>
    /\ nextId' = 1
    /\ workingMessage' = Undefined
    /\ updateWidget(<<>>, visible)
    /\ UNCHANGED <<visible, sessionEntries, todoReturn, formAllVars>>

\* turn_end
TurnEnd ==
    /\ updateWidget(todos, visible)
    /\ UNCHANGED <<todos, nextId, visible, sessionEntries, workingMessage, todoReturn,
                   formAllVars>>

\* Mutant: addTodo does not advance nextId.
addTodoKeepsNextId(list, id, text) ==
    LET todo == [id |-> id, text |-> text, status |-> "pending"]
    IN  [todos |-> Append(list, todo), nextId |-> id, todo |-> todo]

\* addTodo(text) when the list is `list` and state.nextId is `id`
addTodo(list, id, text) ==
    LET todo == [id |-> id, text |-> text, status |-> "pending"]
    IN  [todos |-> Append(list, todo), nextId |-> id + 1, todo |-> todo]

\* The outcome of startTodo and completeTodo: the list afterwards and the
\* todo that was returned, if one was.
Changed(list, i, status) ==
    [found |-> TRUE, todos |-> [list EXCEPT ![i].status = status],
     todo |-> [list[i] EXCEPT !.status = status]]
NotChanged(list) == [found |-> FALSE, todos |-> list]

\* Mutant: start does not test the status of the todo.
startTodoAnyStatus(list, id) ==
    LET i == FindTodo(list, id)
    IN  IF i > 0 THEN Changed(list, i, "in-progress") ELSE NotChanged(list)

startTodo(list, id) ==
    LET i == FindTodo(list, id)
    IN  IF i > 0 /\ list[i].status = "pending"
        THEN Changed(list, i, "in-progress")
        ELSE NotChanged(list)

completeTodo(list, id) ==
    LET i == FindTodo(list, id)
    IN  IF i > 0 /\ list[i].status # "completed"
        THEN Changed(list, i, "completed")
        ELSE NotChanged(list)

TodoError(message) == [isError |-> TRUE, text |-> <<message>>]
TodoResult(result, list, id) ==
    [isError |-> FALSE, text |-> result, details |-> TodoData(list, id)]

\* The end of execute: updateWidget, appendEntry, return.
TodoFinish(result, list, id) ==
    /\ todos' = list
    /\ nextId' = id
    /\ updateWidget(list, visible)
    /\ sessionEntries' = AppendEntry(sessionEntries, TodoData(list, id))
    /\ todoReturn' = TodoResult(result, list, id)

\* Mutant: the early return persists the state as the end of execute does.
TodoFailPersists(message) ==
    /\ todoReturn' = TodoError(message)
    /\ sessionEntries' = AppendEntry(sessionEntries, TodoData(todos, nextId))
    /\ UNCHANGED <<todos, nextId, widget, workingMessage>>

\* The early returns of execute: nothing but the result.
TodoFail(message) ==
    /\ todoReturn' = TodoError(message)
    /\ UNCHANGED <<todos, nextId, sessionEntries, widget, workingMessage>>

\* The todo tool: execute with params.action, params.text and params.id.
TodoTool(action, text, id) ==
    /\ IF action = "add"
       THEN IF text = Undefined \/ text = Defined("")
            THEN TodoFail("Error: 'text' is required for add action")
            ELSE LET added == addTodo(todos, nextId, text.value)
                 IN  /\ Len(todos) < MaxTodos
                     /\ TodoFinish(<<"Added todo #", ToString(added.todo.id), ": ",
                                      added.todo.text>>, added.todos, added.nextId)
                     /\ UNCHANGED workingMessage
       ELSE IF action = "start"
       THEN IF id = Undefined
            THEN TodoFail("Error: 'id' is required for start action")
            ELSE LET started == startTodo(todos, id.value)
                 IN  IF started.found
                     THEN /\ TodoFinish(<<"Started todo #", ToString(started.todo.id), ": ",
                                          started.todo.text>>,
                                        started.todos, nextId)
                          /\ workingMessage' = Defined(<<"Working on: ", started.todo.text>>)
                     ELSE /\ TodoFinish(<<"Todo #", ToString(id.value),
                                          " not found or already in progress/completed">>,
                                        todos, nextId)
                          /\ UNCHANGED workingMessage
       ELSE IF action = "complete"
       THEN IF id = Undefined
            THEN TodoFail("Error: 'id' is required for complete action")
            ELSE LET completed == completeTodo(todos, id.value)
                 IN  IF completed.found
                     THEN LET list == completed.todos
                          IN  /\ TodoFinish(<<"Completed todo #", ToString(completed.todo.id),
                                              ": ", completed.todo.text>>, list, nextId)
                              /\ workingMessage' =
                                    IF \E k \in DOMAIN list : list[k].status = "in-progress"
                                    THEN workingMessage ELSE Undefined
                     ELSE /\ TodoFinish(<<"Todo #", ToString(id.value),
                                          " not found or already completed">>, todos, nextId)
                          /\ UNCHANGED workingMessage
       ELSE IF action = "list"
       THEN /\ TodoFinish(listTodos(todos), todos, nextId)
            /\ UNCHANGED workingMessage
       ELSE /\ TodoFinish(<<"All todos cleared">>, <<>>, 1)
            /\ workingMessage' = Undefined
    /\ UNCHANGED <<visible, formAllVars>>

\* /todos: toggle the visibility
TodosCommand ==
    /\ visible' = ~visible
    /\ updateWidget(todos, ~visible)
    /\ UNCHANGED <<todos, nextId, sessionEntries, workingMessage, todoReturn, formAllVars>>

\* /todos-clear
TodosClearCommand ==
    /\ todos' = <<>>
    /\ nextId' = 1
    /\ updateWidget(<<>>, visible)
    /\ sessionEntries' = AppendEntry(sessionEntries, TodoData(<<>>, 1))
    /\ UNCHANGED <<visible, workingMessage, todoReturn, formAllVars>>

----
\* Specifications.

Signals == {"none", "idle", "aborted"}

\* A form constructed on its own: new InteractiveForm(tui, theme, title, tabs, done, signal).
Init ==
    /\ tabs \in Forms
    /\ signal \in Signals
    /\ constructed = TRUE
    /\ currentTabIndex = 0
    /\ responses = InitResponses(tabs)
    /\ optionCursor = InitOptionCursor(tabs)
    /\ customInputMode = InitCustomInputMode(tabs)
    /\ customInputs = InitCustomInputs(tabs)
    /\ cachedWidth = Undefined
    /\ cachedLines = Undefined
    /\ renderRequested = FALSE
    /\ rendered = Undefined
    /\ doneCalls = <<>>
    /\ keyTick = 0
    /\ scenarioPos = 0
    /\ hasUI = TRUE
    /\ toolPc = "none"
    /\ toolResult = [kind |-> "none"]
    /\ TodoInit

Next ==
    \/ \E data \in UserKeys : HandleInput(data)
    \/ Abort

Spec == Init /\ [][Next]_vars

\* The tool is called: the state before execute runs.
InitTool ==
    /\ tabs \in ToolForms
    /\ signal \in Signals
    /\ constructed = FALSE
    /\ currentTabIndex = 0
    /\ responses = NoEntries
    /\ optionCursor = NoEntries
    /\ customInputMode = NoEntries
    /\ customInputs = NoEntries
    /\ cachedWidth = Undefined
    /\ cachedLines = Undefined
    /\ renderRequested = FALSE
    /\ rendered = Undefined
    /\ doneCalls = <<>>
    /\ keyTick = 0
    /\ scenarioPos = -1
    /\ hasUI \in BOOLEAN
    /\ toolPc = "start"
    /\ toolResult = [kind |-> "none"]
    /\ TodoInit

NextTool ==
    \/ Execute
    \/ \E data \in ToolKeys \cap UserKeys : HandleInput(data)
    \/ Abort
    \/ Resume

SpecTool == InitTool /\ [][NextTool]_vars

\* The form with a digit key delivered in every mode, the custom input mode
\* too, on forms that have a custom-entry slot; no abort signal is passed.
PlanForm == <<PlanTab>>
CustomForms == {FreeTextForm, PlanForm}

InitCustom ==
    /\ tabs \in CustomForms
    /\ signal = "none"
    /\ constructed = TRUE
    /\ currentTabIndex = 0
    /\ responses = InitResponses(tabs)
    /\ optionCursor = InitOptionCursor(tabs)
    /\ customInputMode = InitCustomInputMode(tabs)
    /\ customInputs = InitCustomInputs(tabs)
    /\ cachedWidth = Undefined
    /\ cachedLines = Undefined
    /\ renderRequested = FALSE
    /\ rendered = Undefined
    /\ doneCalls = <<>>
    /\ keyTick = 0
    /\ scenarioPos = -1
    /\ hasUI = TRUE
    /\ toolPc = "none"
    /\ toolResult = [kind |-> "none"]
    /\ TodoInit

CustomKeys == Keys \ {"2"}

NextCustom == \E data \in CustomKeys : HandleInput(data)

SpecCustom == InitCustom /\ [][NextCustom]_vars

\* The form with the host rendering it; no abort signal is passed.
Widths == {8, 12}
NotesForm == <<NotesTab>>
RenderForms == {NotesForm, FreeTextForm}

InitRender ==
    /\ tabs \in RenderForms
    /\ signal = "none"
    /\ constructed = TRUE
    /\ currentTabIndex = 0
    /\ responses = InitResponses(tabs)
    /\ optionCursor = InitOptionCursor(tabs)
    /\ customInputMode = InitCustomInputMode(tabs)
    /\ customInputs = InitCustomInputs(tabs)
    /\ cachedWidth = Undefined
    /\ cachedLines = Undefined
    /\ renderRequested = FALSE
    /\ rendered = Undefined
    /\ doneCalls = <<>>
    /\ keyTick = 0
    /\ scenarioPos = -1
    /\ hasUI = TRUE
    /\ toolPc = "none"
    /\ toolResult = [kind |-> "none"]
    /\ TodoInit

NextRender ==
    \/ \E data \in UserKeys : HandleInput(data)
    \/ \E width \in Widths : Render(width)
    \/ InvalidateCall

SpecRender == InitRender /\ [][NextRender]_vars

\* The tool at the point where the form has handed a result to the
\* completion callback: result.responses is any Record<string, TabResponse>
\* over the tab ids, an entry being a selection without repetition, at most
\* one value on a single-selection tab, or a custom text.
TranscriptForms == {ColorNotesForm, PlanEmptyForm}

Selections(tab) ==
    LET values == {tab.options[i].value : i \in DOMAIN tab.options}
    IN  {<<>>} \cup {<<v>> : v \in values}
        \cup (IF tab.selectionType = "multiple"
              THEN {<<v, w>> : v \in values, w \in values} \ {<<v, v>> : v \in values}
              ELSE {})

TabResponses(tab) ==
    {[selected |-> s] : s \in Selections(tab)}
    \cup (IF tab.allowCustom
          THEN {CustomResponse(<<"h">>), CustomResponse(<<"h", " ", "h">>)}
          ELSE {})

ResultResponses(t) ==
    UNION {{r \in [ids -> UNION {TabResponses(t[i]) : i \in DOMAIN t}] :
               \A i \in DOMAIN t : t[i].id \in ids => r[t[i].id] \in TabResponses(t[i])} :
           ids \in SUBSET TabIds(t)}

InitTranscript ==
    /\ tabs \in TranscriptForms
    /\ signal \in {"none", "idle"}
    /\ constructed = TRUE
    /\ currentTabIndex = 0
    /\ responses = InitResponses(tabs)
    /\ optionCursor = InitOptionCursor(tabs)
    /\ customInputMode = InitCustomInputMode(tabs)
    /\ customInputs = InitCustomInputs(tabs)
    /\ cachedWidth = Undefined
    /\ cachedLines = Undefined
    /\ renderRequested = FALSE
    /\ rendered = Undefined
    /\ doneCalls \in {<<FormResult(r)>> : r \in ResultResponses(tabs)}
    /\ keyTick = 0
    /\ scenarioPos = -1
    /\ hasUI = TRUE
    /\ toolPc = "awaiting"
    /\ toolResult = [kind |-> "none"]
    /\ TodoInit

NextTranscript ==
    \/ Resume
    \/ Abort

SpecTranscript == InitTranscript /\ [][NextTranscript]_vars

\* The todo tracker after the extension is loaded; no form is open.
InitTodo ==
    /\ tabs = ZeroTabForm
    /\ signal = "none"
    /\ constructed = FALSE
    /\ currentTabIndex = 0
    /\ responses = NoEntries
    /\ optionCursor = NoEntries
    /\ customInputMode = NoEntries
    /\ customInputs = NoEntries
    /\ cachedWidth = Undefined
    /\ cachedLines = Undefined
    /\ renderRequested = FALSE
    /\ rendered = Undefined
    /\ doneCalls = <<>>
    /\ keyTick = 0
    /\ scenarioPos = -1
    /\ hasUI = TRUE
    /\ toolPc = "none"
    /\ toolResult = [kind |-> "none"]
    /\ TodoInit

NextTodo ==
    \/ SessionStart
    \/ TurnStart
    \/ TurnEnd
    \/ \E action \in TodoActions :
          \E text \in TextsOf(action), id \in IdsOf(action) : TodoTool(action, text, id)
    \/ TodosCommand
    \/ TodosClearCommand

SpecTodo == InitTodo /\ [][NextTodo]_vars

----
\* Claims.

AnyKey == \E data \in Keys : HandleInput(data)
InSummary == currentTabIndex = Len(tabs)

\* C1: the completion callback is invoked at most once, over any sequence
\* of keys and abort events.
C1_DoneAtMostOnce == Len(doneCalls) <= 1

\* C2: once the completion callback has fired, every later handleInput
\* leaves currentTabIndex, responses, optionCursor and customInputMode
\* unchanged and invokes no callback.
C2_TerminalAfterDone ==
    [][(doneCalls # <<>> /\ AnyKey)
         => UNCHANGED <<currentTabIndex, responses, optionCursor, customInputMode,
                        doneCalls>>]_vars

\* C3: in the Summary view Enter invokes the completion callback with the
\* full current responses mapping.
C3_SummaryEnterSubmits ==
    [][(InSummary /\ HandleInput("enter"))
         => doneCalls' = Append(doneCalls, FormResult(responses))]_vars

\* C4: on the two-tab form, after the keys of Scenario the completion
\* callback has been invoked with Color.selected = [red] and
\* Notes.selected = [a, b], no customText.
ScenarioResponses ==
    [id \in {"Color", "Notes"} |->
        IF id = "Color" THEN [selected |-> <<"red">>] ELSE [selected |-> <<"a", "b">>]]

C4_ScenarioSubmits ==
    (tabs = ColorNotesForm /\ scenarioPos = Len(Scenario))
        => doneCalls = <<FormResult(ScenarioResponses)>>

\* C5: in Browsing of a real tab Escape invokes the completion callback
\* with null, which carries no responses mapping and differs from every
\* submitted result, the all-empty one included.
C5_BrowsingEscapeCancels ==
    [][(HasCurrentTab /\ ~InCustomMode /\ HandleInput("escape"))
         => /\ doneCalls' = Append(doneCalls, Null)
            /\ "responses" \notin DOMAIN doneCalls'[Len(doneCalls')]
            /\ doneCalls'[Len(doneCalls')] # FormResult(responses)
            /\ doneCalls'[Len(doneCalls')] # FormResult(InitResponses(tabs))]_vars

\* C5 witness: Escape has cancelled a form in which a selection had been made.
C5_Witness ==
    /\ doneCalls = <<Null>>
    /\ signal # "aborted"
    /\ \E id \in TabIds(tabs) : responses[id].selected # <<>>

\* C6: in the Summary view Escape invokes the completion callback with null.
C6_SummaryEscapeCancels ==
    [][(InSummary /\ HandleInput("escape"))
         => doneCalls' = Append(doneCalls, Null)]_vars

\* C7: whenever the abort signal of a form is aborted, also when it was
\* aborted already at construction, the completion callback has been
\* invoked with null.
C7_AbortedCancels ==
    (constructed /\ signal = "aborted")
        => \E i \in DOMAIN doneCalls : doneCalls[i] = Null

C9_ZeroTabsEnterSubmits ==
    [][(tabs = ZeroTabForm /\ HandleInput("enter"))
         => /\ Len(doneCalls') = Len(doneCalls) + 1
            /\ doneCalls'[Len(doneCalls')].kind = "result"
            /\ DOMAIN doneCalls'[Len(doneCalls')].responses = {}]_vars

\* C10: 0 <= currentTabIndex <= tabCount in every reachable state.
C10_TabIndexInRange == 0 <= currentTabIndex /\ currentTabIndex <= Len(tabs)

\* C10 witness: tab navigation has reached the Summary view of a form with tabs.
C10_Witness == Len(tabs) > 0 /\ currentTabIndex = Len(tabs)

\* The tab with the given id (tab ids are unique in Forms).
TabOf(id) == CHOOSE tab \in {tabs[i] : i \in DOMAIN tabs} : tab.id = id

CursorInRange(id) ==
    0 <= optionCursor[id] /\ optionCursor[id] < OptionCount(TabOf(id))

\* C11 as stated: for every tab 0 <= optionCursor[tab] < optionCount, a tab
\* without options included.
C11_CursorInRangeEveryTab == \A id \in TabIds(tabs) : CursorInRange(id)

\* C11 amended: for every tab that has at least one slot (an option or the
\* custom-entry slot) 0 <= optionCursor[tab] < optionCount.
C11_CursorInRange ==
    \A id \in TabIds(tabs) : OptionCount(TabOf(id)) >= 1 => CursorInRange(id)

\* C11 witness: the cursor of a tab is on its last slot, below the first.
C11_Witness ==
    \E id \in TabIds(tabs) :
        optionCursor[id] >= 1 /\ optionCursor[id] = OptionCount(TabOf(id)) - 1

\* C12: the selected sequence of a single-selection tab has at most one element.
C12_SingleAtMostOne ==
    \A id \in TabIds(tabs) :
        TabOf(id).selectionType = "single" => Len(responses[id].selected) <= 1

\* C12 witness: a single-selection tab holds its second option, chosen by
\* Down and Enter or by the digit 2.
C12_Witness == tabs = ColorNotesForm /\ responses["Color"].selected = <<"blue">>

\* C13: for every tab a defined customText implies an empty selected sequence.
C13_CustomExcludesSelected ==
    \A id \in TabIds(tabs) :
        HasCustomText(responses[id]) => responses[id].selected = <<>>

\* C13 witness: a tab that has options holds a committed customText.
C13_Witness ==
    \E id \in TabIds(tabs) :
        HasCustomText(responses[id]) /\ TabOf(id).options # <<>>

\* The id of the active tab (where there is one).
CurrentTabId == tabs[currentTabIndex + 1].id

\* C14: a handleInput step leaves the response of every tab other than the
\* active one unchanged.
C14_OtherResponsesUnchanged ==
    [][AnyKey => \A id \in TabIds(tabs) :
                    (~HasCurrentTab \/ id # CurrentTabId) => responses'[id] = responses[id]]_vars

\* C14 witness: both tabs of a form hold an answer, so one was answered
\* while the other already held its answer.
C14_Witness ==
    /\ Len(tabs) = 2
    /\ \A id \in TabIds(tabs) :
          responses[id].selected # <<>> \/ HasCustomText(responses[id])

\* C15: in the Summary view of a form with tabs Shift+Tab or Left sets
\* currentTabIndex to tabCount - 1, and Tab or Right leaves it at tabCount.
C15_SummaryNavigates ==
    [][(InSummary /\ Len(tabs) > 0)
         => /\ (HandleInput("shift+tab") \/ HandleInput("left"))
                  => currentTabIndex' = Len(tabs) - 1
            /\ (HandleInput("tab") \/ HandleInput("right"))
                  => currentTabIndex' = Len(tabs)]_vars

\* A non-empty text without leading or trailing whitespace.
WellTrimmed(text) == text # <<>> /\ text[1] # " " /\ text[Len(text)] # " "

\* The prefix of s up to its last non-blank character, and the suffix of s
\* from its first non-blank character (s itself has one).
Core(s) ==
    LET nonBlank == {i \in DOMAIN s : s[i] # " "}
        first == CHOOSE i \in nonBlank : \A j \in nonBlank : i <= j
        last == CHOOSE i \in nonBlank : \A j \in nonBlank : j <= i
    IN  IF nonBlank = {} THEN <<>> ELSE SubSeq(s, first, last)

\* C16: Enter in custom input mode returns the tab to Browsing; a buffer
\* that is non-empty once its surrounding whitespace is removed becomes the
\* response {selected: [], customText: that text}, any other buffer leaves
\* the response unchanged; every customText is non-empty and has no leading
\* or trailing whitespace.
C16_CustomEnterCommits ==
    [][/\ (InCustomMode /\ HandleInput("enter"))
            => /\ ~customInputMode'[CurrentTabId]
               /\ responses'[CurrentTabId] =
                     IF Core(customInputs[CurrentTabId]) # <<>>
                     THEN [selected |-> <<>>,
                           customText |-> Core(customInputs[CurrentTabId])]
                     ELSE responses[CurrentTabId]
       /\ \A id \in TabIds(tabs) :
             HasCustomText(responses'[id]) => WellTrimmed(responses'[id].customText)]_vars

\* C16 witness: a buffer with surrounding whitespace was committed as the
\* text without it.
C16_Witness ==
    \E id \in TabIds(tabs) :
        /\ HasCustomText(responses[id])
        /\ ~customInputMode[id]
        /\ customInputs[id] # responses[id].customText
        /\ Core(customInputs[id]) = responses[id].customText

\* A buffer holds no uncommitted text: it is blank, or what it holds apart
\* from surrounding whitespace is the customText of the tab.
BufferCommitted(buffer, response) ==
    Core(buffer) = <<>> \/ (HasCustomText(response) /\ Core(buffer) = response.customText)

\* C17: Escape in custom input mode returns the tab to Browsing, invokes no
\* callback, leaves every response unchanged and discards the edits, so the
\* buffer holds no uncommitted text afterwards.
C17_CustomEscapeDiscards ==
    [][(InCustomMode /\ HandleInput("escape"))
         => /\ ~customInputMode'[CurrentTabId]
            /\ doneCalls' = doneCalls
            /\ responses' = responses
            /\ BufferCommitted(customInputs'[CurrentTabId], responses[CurrentTabId])]_vars

\* C18: when a tab enters custom input mode and has a committed customText,
\* the buffer shows that text.
C18_EnterCustomShowsCommitted ==
    [][(HasCurrentTab /\ ~InCustomMode /\ AnyKey /\ customInputMode'[CurrentTabId]
          /\ HasCustomText(responses[CurrentTabId]))
         => Core(customInputs'[CurrentTabId]) = responses[CurrentTabId].customText]_vars

\* The slot under the cursor of the active tab is a real option.
OnRealOption == (optionCursor[CurrentTabId] + 1) \in DOMAIN tabs[currentTabIndex + 1].options
ValueAtCursor == tabs[currentTabIndex + 1].options[optionCursor[CurrentTabId] + 1].value
EnterOrSpace == HandleInput("enter") \/ HandleInput("space")

\* C19: in Browsing on a real option of a single-selection tab Enter or
\* Space makes the response exactly selected = [that value] with no
\* customText, whatever it was before.
C19_SingleSelectReplaces ==
    [][(HasCurrentTab /\ ~InCustomMode /\ OnRealOption
          /\ tabs[currentTabIndex + 1].selectionType = "single" /\ EnterOrSpace)
         => responses'[CurrentTabId] = [selected |-> <<ValueAtCursor>>]]_vars

\* C19 witness: a single-selection tab with a custom-entry slot holds an
\* option while its buffer still shows the text committed before.
C19_Witness ==
    /\ tabs = PlanEmptyForm
    /\ responses["Plan"] = [selected |-> <<"x">>]
    /\ customInputs["Plan"] = <<"h">>

\* seq without the value v
RECURSIVE Without(_, _)
Without(seq, v) ==
    IF seq = <<>> THEN <<>>
    ELSE IF Head(seq) = v THEN Without(Tail(seq), v)
    ELSE <<Head(seq)>> \o Without(Tail(seq), v)

\* C20: in Browsing on a real option of a multiple-selection tab Enter or
\* Space removes the value from selected if it is there and appends it at
\* the end otherwise, and leaves no customText.
C20_MultipleToggles ==
    [][(HasCurrentTab /\ ~InCustomMode /\ OnRealOption
          /\ tabs[currentTabIndex + 1].selectionType = "multiple" /\ EnterOrSpace)
         => LET selected == responses[CurrentTabId].selected
                present == \E i \in DOMAIN selected : selected[i] = ValueAtCursor
            IN  responses'[CurrentTabId] =
                    [selected |-> IF present THEN Without(selected, ValueAtCursor)
                                  ELSE selected \o <<ValueAtCursor>>]]_vars

\* C20 witness: the values are listed in the order of selection, b before a.
C20_Witness == tabs = ColorNotesForm /\ responses["Notes"].selected = <<"b", "a">>

\* The form shows a question and the tab is not capturing free text.
Browsing == HasCurrentTab /\ ~InCustomMode

\* What Enter on slot `slot` of the current tab leaves behind: the claim's
\* reading of "the selection effect of Enter on that slot".
EnterEffect(slot) ==
    LET tab == tabs[currentTabIndex + 1]
        old == responses[tab.id].selected
    IN  IF tab.allowCustom /\ slot = Len(tab.options)
        THEN [responses |-> responses,
              customInputMode |-> [customInputMode EXCEPT ![tab.id] = TRUE]]
        ELSE LET value == tab.options[slot + 1].value
             IN  [responses |-> [responses EXCEPT ![tab.id] =
                     [selected |-> IF tab.selectionType = "single" THEN <<value>>
                                   ELSE IF \E i \in DOMAIN old : old[i] = value
                                   THEN Without(old, value)
                                   ELSE old \o <<value>>]],
                  customInputMode |-> customInputMode]

SlotCount == OptionCount(tabs[currentTabIndex + 1])

\* C21: in Browsing a digit d with 1 <= d <= optionCount leaves the cursor on
\* slot d - 1 and the responses and custom-input modes exactly as Enter on
\* slot d - 1 leaves them: Enter with the cursor on a slot s keeps the cursor
\* and yields EnterEffect(s), the digit moves the cursor to d - 1 and yields
\* EnterEffect(d - 1), for single and multiple selection and the custom slot.
C21_DigitIsMoveThenEnter ==
    [][/\ \A d \in DigitKeys :
            (Browsing /\ ParseInt(d) <= SlotCount /\ HandleInput(d))
            => /\ optionCursor' = [optionCursor EXCEPT ![CurrentTabId] = ParseInt(d) - 1]
               /\ responses' = EnterEffect(ParseInt(d) - 1).responses
               /\ customInputMode' = EnterEffect(ParseInt(d) - 1).customInputMode
       /\ (Browsing /\ optionCursor[CurrentTabId] \in 0..(SlotCount - 1)
             /\ HandleInput("enter"))
            => /\ optionCursor' = optionCursor
               /\ responses' = EnterEffect(optionCursor[CurrentTabId]).responses
               /\ customInputMode' = EnterEffect(optionCursor[CurrentTabId]).customInputMode
      ]_vars

\* Digit 2 was pressed on the untouched colour tab: the cursor is on slot 1
\* and blue is selected; and digit 2 on the planning tab opened its custom slot.
C21_Witness ==
    \/ /\ tabs = ColorNotesForm /\ optionCursor["Color"] = 1
       /\ responses["Color"].selected = <<"blue">> /\ optionCursor["Notes"] = 0
    \/ /\ tabs = PlanEmptyForm /\ optionCursor["Plan"] = 1 /\ customInputMode["Plan"]

\* C22: in Browsing a digit greater than the current tab's optionCount is
\* ignored: cursor, responses, custom-input modes and tab index are unchanged.
C22_DigitBeyondCountIgnored ==
    [][\A d \in DigitKeys :
          (Browsing /\ ParseInt(d) > SlotCount /\ HandleInput(d))
          => UNCHANGED <<optionCursor, responses, customInputMode, currentTabIndex>>]_vars

\* Digits 1 and 2 reach a tab with fewer slots: the free-text tab has one
\* slot, the empty tab none.  The state after an ignored key on the free-text
\* tab (digit 2 is one): one key was handled and the form is as constructed.
C22_Witness ==
    /\ tabs = FreeTextForm /\ keyTick = 1 /\ scenarioPos = -1
    /\ currentTabIndex = 0 /\ ~customInputMode["Free"] /\ doneCalls = <<>>
    /\ customInputs["Free"] = <<>>

\* C29: in Browsing on tab i, Tab or Right sets currentTabIndex to
\* min(i + 1, tabCount), Shift+Tab or Left sets it to max(i - 1, 0), and both
\* leave every response, every cursor and every custom-input mode unchanged.
C29_TabNavigation ==
    [][/\ (Browsing /\ (HandleInput("tab") \/ HandleInput("right")))
            => /\ currentTabIndex' = (IF currentTabIndex + 1 < Len(tabs)
                                      THEN currentTabIndex + 1 ELSE Len(tabs))
               /\ UNCHANGED <<responses, optionCursor, customInputMode>>
       /\ (Browsing /\ (HandleInput("shift+tab") \/ HandleInput("left")))
            => /\ currentTabIndex' = (IF currentTabIndex >= 1
                                      THEN currentTabIndex - 1 ELSE 0)
               /\ UNCHANGED <<responses, optionCursor, customInputMode>>
      ]_vars

\* The user answered the first tab, moved the cursor, went to the second tab
\* and came back: the answer and the cursor are still there.
C29_Witness ==
    /\ tabs = ColorNotesForm /\ currentTabIndex = 0
    /\ responses["Color"].selected = <<"blue">> /\ optionCursor["Color"] = 1
    /\ responses["Notes"].selected = <<"a">> /\ optionCursor["Notes"] = 2

\* C30: in Browsing, Up and Down change only the current tab's cursor, by one
\* step clamped to the slots of the tab (Up on slot 0 and Down on the last
\* slot leave it), and change no response; on a tab without any slot Up, Down,
\* Enter and the digits leave the cursor where it is or put it on a slot,
\* never outside the slots.
C30_UpDownClamped ==
    [][/\ (Browsing /\ HandleInput("up"))
            => /\ optionCursor' = [optionCursor EXCEPT ![CurrentTabId] =
                      IF @ >= 1 THEN @ - 1 ELSE @]
               /\ responses' = responses
       /\ (Browsing /\ HandleInput("down"))
            => /\ optionCursor' = [optionCursor EXCEPT ![CurrentTabId] =
                      IF @ + 1 <= SlotCount - 1 THEN @ + 1 ELSE @]
               /\ responses' = responses
       /\ \A data \in {"up", "down", "enter"} \cup DigitKeys :
            (Browsing /\ SlotCount = 0 /\ HandleInput(data))
            => /\ optionCursor'[CurrentTabId] = optionCursor[CurrentTabId]
                  \/ optionCursor'[CurrentTabId] \in 0..(SlotCount - 1)
               /\ responses' = responses
      ]_vars

\* C24: for every real tab, the tab header's answered predicate holds exactly
\* when the answer the Summary view computes for the tab is not the
\* "(no selection)" placeholder.
C24_AnsweredIffSummaryAnswer ==
    \A i \in DOMAIN tabs :
        hasResponse(tabs[i].id) <=> (SummaryAnswer(tabs[i]) # NoSelection)

\* Both kinds of answered tab and an unanswered one are reached: a tab with a
\* selection and a tab with a custom text, and a form with a tab left open.
C24_Witness ==
    /\ tabs = ColorNotesForm
    /\ responses["Color"].selected = <<"red">>
    /\ HasCustomText(responses["Notes"])

\* C26: without an interactive UI (ctx.hasUI false) the tool returns the
\* no_ui error result in its first step, no form is ever constructed and the
\* completion callback is never invoked.
C26_NoUiErrorResult ==
    ~hasUI => /\ ~constructed
              /\ doneCalls = <<>>
              /\ toolPc \in {"start", "returned"}
              /\ toolPc = "returned" => toolResult = NoUiResult

\* The tool has returned without a UI, and the abort signal fired as well.
C26_Witness == ~hasUI /\ toolPc = "returned" /\ signal = "aborted"

\* C28: while the current tab is in CustomInput every key other than Escape
\* and Enter (Tab, Shift+Tab, arrows, Space, digits, characters) is handed to
\* that tab's text buffer and changes neither the tab index, a cursor, a
\* custom-input mode nor a response, and the completion callback is not called.
C28_CustomKeysGoToBuffer ==
    [][\A data \in Keys \ {"escape", "enter"} :
          (InCustomMode /\ HandleInput(data))
          => /\ customInputs' = [customInputs EXCEPT ![CurrentTabId] =
                                    InputHandleInput(@, data)]
             /\ UNCHANGED <<currentTabIndex, optionCursor, customInputMode, responses,
                            doneCalls>>]_vars

\* Digit 1 was typed into the custom text of the planning tab: it is in the
\* buffer, and option x, which digit 1 chooses in Browsing, is not selected.
C28_Witness ==
    /\ tabs = PlanForm /\ currentTabIndex = 0 /\ customInputMode["Plan"]
    /\ customInputs["Plan"] = <<"1">> /\ responses["Plan"].selected = <<>>
    /\ optionCursor["Plan"] = 1

\* C23: a render(width) that follows a render(width) with no handleInput and
\* no invalidate in between returns the same lines, and render changes none
\* of currentTabIndex, responses, optionCursor and customInputMode.
C23_RenderIdempotent ==
    [][\A width \in Widths :
          Render(width)
          => /\ (rendered # Undefined /\ rendered.width = width)
                   => rendered'.lines = rendered.lines
             /\ UNCHANGED <<currentTabIndex, responses, optionCursor, customInputMode>>]_vars

\* The second of two renders at width 12 has returned, from the cache, the
\* frame of a form with an answer and an open custom input.
C23_Witness ==
    /\ rendered # Undefined /\ rendered.fromCache /\ rendered.width = 12
    /\ tabs = NotesForm /\ currentTabIndex = 0 /\ customInputMode["Notes"]
    /\ responses["Notes"].selected = <<"b", "a">>

\* The lines of a text: the pieces between its "\n" pieces.
RECURSIVE SplitLines(_)
SplitLines(text) ==
    IF \E i \in DOMAIN text : text[i] = "\n"
    THEN LET i == CHOOSE k \in DOMAIN text :
                     text[k] = "\n" /\ \A j \in 1..(k - 1) : text[j] # "\n"
         IN  <<SubSeq(text, 1, i - 1)>> \o SplitLines(SubSeq(text, i + 1, Len(text)))
    ELSE <<text>>

\* The labels of the selected values, in selection order, with ", " between.
CommaJoinedLabels(tab, selected) ==
    [j \in 1..(2 * Len(selected) - 1) |->
        IF j % 2 = 0 THEN ", "
        ELSE (CHOOSE opt \in {tab.options[i] : i \in DOMAIN tab.options} :
                  opt.value = selected[(j + 1) \div 2]).label]

C27_LastEntryIsState ==
    Restore(sessionEntries, TodoData(<<>>, 1)) = TodoData(todos, nextId)

\* The fields a frame is computed from.
ShownState == <<currentTabIndex, optionCursor, customInputMode, customInputs, responses>>

ExpectedSummaryAnswer(tab) ==
    LET response == responses[tab.id]
    IN  IF HasCustomText(response) THEN response.customText
        ELSE IF response.selected # <<>> THEN CommaJoinedLabels(tab, response.selected)
        ELSE <<"(no selection)">>

\* C32: the frame of the Summary view has one line for every real tab, in
\* the order of the tabs, with the tab's label and as answer the customText
\* if it is set, else the labels of the selected options in selection order
\* joined by ", ", else the placeholder "(no selection)".
C32_SummaryListsAnswers ==
    InSummary
    => \A width \in Widths :
          LET frame == RenderLines(width)
          IN  /\ Len(frame) = Len(tabs) + 11
              /\ \A k \in DOMAIN tabs :
                    frame[6 + k].text
                       = <<"  ", tabs[k].label, ":", " ">> \o ExpectedSummaryAnswer(tabs[k])

\* The Summary view of a form with two selected options on one tab (chosen
\* b first) and one selected option on the other.
C32_Witness ==
    /\ InSummary /\ tabs = ColorNotesForm
    /\ responses["Color"].selected = <<"blue">>
    /\ responses["Notes"].selected = <<"b", "a">>

\* C33: the keys of responses are the ids of the tabs in every state; at
\* construction every entry has an empty selection and no customText; a
\* result handed to the completion callback has an entry for every tab.
C33_ResponsesKeySet ==
    /\ DOMAIN responses = TabIds(tabs)
    /\ scenarioPos = 0 => \A id \in TabIds(tabs) : responses[id] = [selected |-> <<>>]
    /\ \A i \in DOMAIN doneCalls :
          doneCalls[i] # Null => DOMAIN doneCalls[i].responses = TabIds(tabs)

\* Both tabs were answered by a selection after a text was typed into the
\* custom input of one of them; the entries are still those of the two tabs.
C33_Witness ==
    /\ tabs = ColorNotesForm /\ keyTick = 0 /\ scenarioPos = -1
    /\ responses["Color"].selected = <<"blue">>
    /\ responses["Notes"].selected = <<"a">>
    /\ customInputs["Notes"] = <<"h">>

\* C34: customInputMode[T] holds only if T is the active tab, T allows a
\* custom answer and the cursor of T is on the custom-entry slot; so at most
\* one tab is in the custom input mode, and none while the Summary view is
\* active.
C34_CustomModeOnlyOnCustomSlot ==
    \A k \in DOMAIN tabs :
        customInputMode[tabs[k].id]
        => /\ currentTabIndex = k - 1
           /\ tabs[k].allowCustom
           /\ optionCursor[tabs[k].id] = Len(tabs[k].options)

\* The second tab is in the custom input mode, entered with the cursor.
C34_Witness ==
    /\ tabs = ColorNotesForm /\ customInputMode["Notes"] /\ currentTabIndex = 1
    /\ optionCursor["Notes"] = 2 /\ optionCursor["Color"] = 1

\* C35: for every tab, each element of selected is the value of one of the
\* tab's options and no value occurs twice.
C35_SelectedAreDistinctOptionValues ==
    \A k \in DOMAIN tabs :
        LET selected == responses[tabs[k].id].selected
        IN  /\ \A i \in DOMAIN selected :
                  \E j \in DOMAIN tabs[k].options : tabs[k].options[j].value = selected[i]
            /\ \A i, j \in DOMAIN selected : selected[i] = selected[j] => i = j

\* Both options of the multiple-selection tab are selected, a first, with
\* the cursor on b, and the other tab is answered too.
C35_Witness ==
    /\ tabs = ColorNotesForm /\ responses["Notes"].selected = <<"a", "b">>
    /\ optionCursor["Notes"] = 1 /\ responses["Color"].selected = <<"red">>

\* The set of the elements of a sequence.
Range(seq) == {seq[i] : i \in DOMAIN seq}

\* C36: on a multiple-selection tab without customText, Enter or Space with
\* the cursor on an option, or the digit of the option, toggles the option and
\* leaves the form in Browsing on the same tab with the cursor on that
\* option, so that the same key acts on it again; toggling twice an option
\* that is not selected gives back the selected sequence, toggling twice one
\* that is selected gives the same values with that value moved to the end.
C36_ToggleTwice ==
    [][\A slot \in 0..1 :
          LET tab == tabs[currentTabIndex + 1]
              id == tab.id
              response == responses[id]
              value == tab.options[slot + 1].value
              once == SelectOption(tab, response, value)
              twice == SelectOption(tab, once, value)
              digit == IF slot = 0 THEN "1" ELSE "2"
          IN  (/\ Browsing /\ tab.selectionType = "multiple"
               /\ (slot + 1) \in DOMAIN tab.options /\ ~HasCustomText(response)
               /\ \/ HandleInput(digit)
                  \/ optionCursor[id] = slot /\ EnterOrSpace)
              => /\ responses'[id] = once
                 /\ optionCursor'[id] = slot /\ currentTabIndex' = currentTabIndex
                 /\ ~customInputMode'[id] /\ ~HasCustomText(once)
                 /\ value \notin Range(response.selected)
                       => twice.selected = response.selected
                 /\ value \in Range(response.selected)
                       => /\ Range(twice.selected) = Range(response.selected)
                          /\ twice.selected = Without(response.selected, value) \o <<value>>
      ]_vars

\* Option a, selected before b, was toggled twice with the cursor on it and
\* is now last.
C36_Witness ==
    /\ tabs = ColorNotesForm /\ currentTabIndex = 1 /\ optionCursor["Notes"] = 0
    /\ responses["Notes"].selected = <<"b", "a">> /\ responses["Color"].selected = <<>>

\* pending, in-progress, completed in their order
StatusRank(status) ==
    IF status = "pending" THEN 0 ELSE IF status = "in-progress" THEN 1 ELSE 2

\* The calls of the todo tool by the parameter their action reads.
AddCall(text) == TodoTool("add", text, Undefined)
StartCallOf(id) == TodoTool("start", Undefined, id)
CompleteCallOf(id) == TodoTool("complete", Undefined, id)
StartCall == \E id \in TodoIds : StartCallOf(id)
CompleteCall == \E id \in TodoIds : CompleteCallOf(id)

\* The list after a step is the list before it but for the status of the
\* todos at the positions in `changed`.
SameButStatus(changed) ==
    /\ DOMAIN todos' = DOMAIN todos
    /\ \A i \in DOMAIN todos :
          /\ todos'[i].id = todos[i].id /\ todos'[i].text = todos[i].text
          /\ i \notin changed => todos'[i].status = todos[i].status

\* C37: a todo that stays in the list never moves back in status; start
\* changes at most one todo, a pending one, to in-progress, complete changes
\* at most one todo, one that is not completed, to completed, and neither
\* changes a completed todo.
C37_StatusMovesForward ==
    [][/\ \A i \in DOMAIN todos \cap DOMAIN todos' :
             todos'[i].id = todos[i].id
             => StatusRank(todos'[i].status) >= StatusRank(todos[i].status)
       /\ StartCall
             => \E changed \in {c \in SUBSET DOMAIN todos : Cardinality(c) <= 1} :
                   /\ SameButStatus(changed)
                   /\ \A i \in changed : /\ todos[i].status = "pending"
                                         /\ todos'[i].status = "in-progress"
       /\ CompleteCall
             => \E changed \in {c \in SUBSET DOMAIN todos : Cardinality(c) <= 1} :
                   /\ SameButStatus(changed)
                   /\ \A i \in changed : /\ todos[i].status # "completed"
                                         /\ todos'[i].status = "completed"
      ]_vars

\* The first todo went from pending through in-progress to completed and
\* the second was completed while pending; a third call of start found
\* nothing to start.
C37_Witness ==
    /\ Len(todos) = 2 /\ todos[1].status = "completed" /\ todos[2].status = "completed"
    /\ todoReturn # Undefined /\ ~todoReturn.isError
    /\ todoReturn.text[Len(todoReturn.text)] = " not found or already in progress/completed"


ClearCall == TodoTool("clear", Undefined, Undefined)

\* C38: the ids of the list are distinct and increase strictly in list order,
\* and nextId is greater than each of them; a clear (by the tool or by
\* /todos-clear) and turn_start leave the list empty with nextId = 1.
C38_IdsIncrease ==
    /\ [](/\ \A i, j \in DOMAIN todos : i < j => todos[i].id < todos[j].id
          /\ \A i \in DOMAIN todos : todos[i].id < nextId)
    /\ [][(ClearCall \/ TodosClearCommand \/ TurnStart)
             => todos' = <<>> /\ nextId' = 1]_vars

\* Two todos were added, with the ids 1 and 2, and the second was started.
C38_Witness ==
    /\ Len(todos) = 2 /\ todos[1].id = 1 /\ todos[2].id = 2 /\ nextId = 3
    /\ todos[1].status = "pending" /\ todos[2].status = "in-progress"

\* C39: the widget is set exactly when the list is visible and not empty, and
\* then shows the list; /todos flips `visible` and leaves the todos and nextId.
C39_WidgetShownIffVisibleAndNonEmpty ==
    /\ [](/\ widget # Undefined <=> visible /\ Len(todos) > 0
          /\ widget # Undefined => widget = Defined(renderWidget(todos)))
    /\ [][TodosCommand => /\ visible' = ~visible
                          /\ todos' = todos /\ nextId' = nextId]_vars

\* The list holds todos and is hidden: no widget.
C39_Witness ==
    /\ ~visible /\ Len(todos) = 2 /\ todos[1].status = "completed"
    /\ widget = Undefined

\* A call that returns early: isError, and the state and the session as before.
Rejected ==
    /\ todoReturn'.isError
    /\ todos' = todos /\ nextId' = nextId
    /\ sessionEntries' = sessionEntries
    /\ widget' = widget /\ workingMessage' = workingMessage

NoText(text) == text = Undefined \/ text = Defined("")
HasTodo(id, statuses) == \E i \in DOMAIN todos : todos[i].id = id /\ todos[i].status \in statuses

\* C40: add without text and start or complete without id return isError,
\* append no entry and leave the list and nextId; start of an id that is not
\* there or not pending and complete of an id that is not there or already
\* completed leave the list and nextId.
C40_FailedCallsChangeNothing ==
    [][/\ \A text \in TodoTexts : (NoText(text) /\ AddCall(text)) => Rejected
       /\ StartCallOf(Undefined) => Rejected
       /\ CompleteCallOf(Undefined) => Rejected
       /\ \A id \in TodoIds \ {Undefined} :
             /\ (~HasTodo(id.value, {"pending"}) /\ StartCallOf(id))
                   => todos' = todos /\ nextId' = nextId
             /\ (~HasTodo(id.value, {"pending", "in-progress"}) /\ CompleteCallOf(id))
                   => todos' = todos /\ nextId' = nextId
      ]_vars

\* A call of start without an id was rejected when the list held one todo
\* and the session one entry.
C40_Witness ==
    /\ todoReturn = TodoError("Error: 'id' is required for start action")
    /\ Len(todos) = 1 /\ nextId = 2
    /\ sessionEntries = <<TodoData(todos, nextId)>>

====
